---- MODULE Spec2Model ----
(***************************************************************************)
(* ChatPDF (src/main.py): a Streamlit script that is re-run from top to    *)
(* bottom on every user interaction.  Text is modelled as a sequence of    *)
(* one-character strings, so that splitting, searching and JSON parsing    *)
(* are computed character by character.  The sidebar's zoom slider and     *)
(* st.session_state.zoom_level (lines 26-27, 43-49) touch nothing else and *)
(* are left out.                                                           *)
(***************************************************************************)
EXTENDS Integers, Sequences, FiniteSets, TLC

VARIABLES
  uploaded_file,   \* the file held by the st.file_uploader widget (NoFile: none)
  qa_cache,        \* st.cache_resource entry of setup_qa_system: "unset", "ok", "none"
  current_page,    \* st.session_state.current_page
  sources,         \* st.session_state.sources
  doc,             \* st.session_state.doc
  chat_history,    \* st.session_state.chat_history (<<>>: key not yet in the session)
  chat_occurred,   \* st.session_state.get("chat_occurred", False)
  total_pages,     \* st.session_state.total_pages (0: key not yet in the session)
  ui,              \* what the last run of the script put on the screen
  event,           \* the interaction that triggered the last run
  call             \* a direct call of one of the two pure functions

vars == <<uploaded_file, qa_cache, current_page, sources, doc, chat_history,
          chat_occurred, total_pages, ui, event, call>>

session == <<uploaded_file, qa_cache, current_page, sources, doc, chat_history,
             chat_occurred, total_pages, ui, event>>

----------------------------------------------------------------------------
(* Bounds *)

MaxTurns == 5

MaxExcerpts == 2

----------------------------------------------------------------------------
(* Text helpers *)

Range(s) == {s[i] : i \in 1..Len(s)}

\* s[i..] starts with p
StartsWithAt(s, i, p) ==
  /\ i + Len(p) - 1 <= Len(s)
  /\ \A k \in 1..Len(p) : s[i + k - 1] = p[k]

\* first index >= i at which p occurs in s, 0 if none (str.find)
RECURSIVE Find(_, _, _)
Find(s, p, i) ==
  IF i + Len(p) - 1 > Len(s) THEN 0
  ELSE IF StartsWithAt(s, i, p) THEN i
  ELSE Find(s, p, i + 1)

\* the separator of line 195: ". "
Separator == <<".", " ">>

\* str.split(sep): cut at each occurrence of sep, scanning left to right
RECURSIVE Split(_, _)
Split(s, sep) ==
  LET j == Find(s, sep, 1) IN
  IF j = 0 THEN <<s>>
  ELSE <<SubSeq(s, 1, j - 1)>> \o Split(SubSeq(s, j + Len(sep), Len(s)), sep)

----------------------------------------------------------------------------
(* Documents: a fitz document is a sequence of pages, a page is its text.   *)

NoneDoc == [isNone |-> TRUE, pages |-> <<>>]

Document(pages) == [isNone |-> FALSE, pages |-> pages]

\* len(document)
PageCount(document) == Len(document.pages)

\* truth value of a document in "if document", "if st.session_state.doc"
Truthy(document) == ~document.isNone /\ PageCount(document) > 0

\* page.search_for(excerpt): one rectangle per occurrence of the excerpt in the
\* page's text, in reading order; glyphs are one unit wide on a single line.
search_for(page, excerpt) ==
  IF Len(excerpt) = 0 THEN <<>>
  ELSE
    LET Hit(i) == StartsWithAt(page, i, excerpt)
        starts == SelectSeq([i \in 1..Len(page) |-> i], Hit)
    IN [k \in 1..Len(starts) |->
          [x0 |-> starts[k] - 1, y0 |-> 10,
           x1 |-> starts[k] - 1 + Len(excerpt), y1 |-> 12]]

\* any(excerpt and page.search_for(excerpt) for excerpt in excerpts)
AnyExcerptMatches(page, excerpts) ==
  \E i \in 1..Len(excerpts) :
     Len(excerpts[i]) > 0 /\ Len(search_for(page, excerpts[i])) > 0

\* the loop of locate_pages_containing_excerpts from page_num on
RECURSIVE LocateLoop(_, _, _, _)
LocateLoop(document, excerpts, page_num, relevant_pages) ==
  IF page_num >= PageCount(document) THEN relevant_pages
  ELSE LocateLoop(document, excerpts, page_num + 1,
         IF AnyExcerptMatches(document.pages[page_num + 1], excerpts)
         THEN Append(relevant_pages, page_num)
         ELSE relevant_pages)

LocateFallbackEmpty(relevant_pages) == relevant_pages

\* return relevant_pages if relevant_pages else [0]
LocateFallback(relevant_pages) ==
  IF Len(relevant_pages) > 0 THEN relevant_pages ELSE <<0>>

LocateLoopFromSecondPage(document, excerpts) ==
  LocateLoop(document, excerpts, 1, <<>>)

\* for page_num in range(len(document)): ...
LocateScan(document, excerpts) == LocateLoop(document, excerpts, 0, <<>>)

locate_pages_containing_excerpts(document, excerpts) ==
  LocateFallback(LocateScan(document, excerpts))

AnnotationWidthIsX1(page_num, inst) ==
  [page |-> page_num + 1, x |-> inst.x0, y |-> inst.y0,
   width |-> inst.x1, height |-> inst.y1 - inst.y0, color |-> "yellow"]

\* the dictionary appended at lines 118-125
Annotation(page_num, inst) ==
  [page |-> page_num + 1, x |-> inst.x0, y |-> inst.y0,
   width |-> inst.x1 - inst.x0, height |-> inst.y1 - inst.y0,
   color |-> "yellow"]

\* for inst in page.search_for(excerpt): annotations.append(...)
InstLoop(page_num, insts) ==
  [k \in 1..Len(insts) |-> Annotation(page_num, insts[k])]

\* for excerpt in excerpts: if excerpt: ...
RECURSIVE ExcerptLoop(_, _, _, _)
ExcerptLoop(page_num, page, excerpts, i) ==
  IF i > Len(excerpts) THEN <<>>
  ELSE (IF Len(excerpts[i]) > 0
        THEN InstLoop(page_num, search_for(page, excerpts[i]))
        ELSE <<>>)
       \o ExcerptLoop(page_num, page, excerpts, i + 1)

\* for page_num, page in enumerate(document): ...
RECURSIVE PageLoop(_, _, _)
PageLoop(document, excerpts, page_num) ==
  IF page_num >= PageCount(document) THEN <<>>
  ELSE ExcerptLoop(page_num, document.pages[page_num + 1], excerpts, 1)
       \o PageLoop(document, excerpts, page_num + 1)

generate_highlight_annotations(document, excerpts) ==
  IF Truthy(document) /\ Len(excerpts) > 0
  THEN PageLoop(document, excerpts, 0)
  ELSE <<>>

----------------------------------------------------------------------------
(* json.loads on the subset of JSON the answers use: objects, strings       *)
(* without escapes, unsigned integers, null, blanks between tokens.         *)

JNull == [t |-> "null", s |-> <<>>, kv |-> <<>>]

JStr(s) == [t |-> "str", s |-> s, kv |-> <<>>]

JNum(s) == [t |-> "num", s |-> s, kv |-> <<>>]

JObj(kv) == [t |-> "obj", s |-> <<>>, kv |-> kv]

Quote == "\""

Digits == {"0", "1", "2", "3", "4", "5", "6", "7", "8", "9"}

ParseFail == [ok |-> FALSE, val |-> JNull, next |-> 0]

ParseOk(val, next) == [ok |-> TRUE, val |-> val, next |-> next]

RECURSIVE SkipWs(_, _)
SkipWs(s, i) == IF i <= Len(s) /\ s[i] = " " THEN SkipWs(s, i + 1) ELSE i

RECURSIVE SkipDigits(_, _)
SkipDigits(s, i) ==
  IF i <= Len(s) /\ s[i] \in Digits THEN SkipDigits(s, i + 1) ELSE i

\* s[i] is the opening quote
ParseString(s, i) ==
  LET j == Find(s, <<Quote>>, i + 1) IN
  IF j = 0 THEN ParseFail ELSE ParseOk(JStr(SubSeq(s, i + 1, j - 1)), j + 1)

\* mode "value": the value that starts at or after position i;
\* modes "first" and "more": the members of an object from position i on
\* (blanks already skipped), kv being the members read so far
RECURSIVE Parse(_, _, _, _)
Parse(s, i, kv, mode) ==
  IF mode = "value"
  THEN
    LET i0 == SkipWs(s, i) IN
    IF i0 > Len(s) THEN ParseFail
    ELSE IF s[i0] = Quote THEN ParseString(s, i0)
    ELSE IF s[i0] = "{" THEN Parse(s, SkipWs(s, i0 + 1), <<>>, "first")
    ELSE IF StartsWithAt(s, i0, <<"n", "u", "l", "l">>) THEN ParseOk(JNull, i0 + 4)
    ELSE IF s[i0] = "0" THEN ParseOk(JNum(<<"0">>), i0 + 1)
    ELSE IF s[i0] \in Digits
         THEN ParseOk(JNum(SubSeq(s, i0, SkipDigits(s, i0) - 1)), SkipDigits(s, i0))
    ELSE ParseFail
  ELSE
    IF i > Len(s) THEN ParseFail
    ELSE IF s[i] = "}" /\ mode = "first" THEN ParseOk(JObj(kv), i + 1)
    ELSE IF s[i] # Quote THEN ParseFail
    ELSE
      LET k  == ParseString(s, i)
          i1 == SkipWs(s, k.next)
      IN
      IF ~k.ok \/ i1 > Len(s) \/ s[i1] # ":" THEN ParseFail
      ELSE
        LET v   == Parse(s, i1 + 1, <<>>, "value")
            i2  == SkipWs(s, v.next)
            kv2 == Append(kv, <<k.val.s, v.val>>)
        IN
        IF ~v.ok \/ i2 > Len(s) THEN ParseFail
        ELSE IF s[i2] = "," THEN Parse(s, SkipWs(s, i2 + 1), kv2, "more")
        ELSE IF s[i2] = "}" THEN ParseOk(JObj(kv2), i2 + 1)
        ELSE ParseFail

\* json.loads(raw): one value, then nothing but blanks
json_loads(raw) ==
  LET r == Parse(raw, 1, <<>>, "value") IN
  IF r.ok /\ SkipWs(raw, r.next) = Len(raw) + 1 THEN r ELSE ParseFail

\* key in d
HasKey(obj, key) == \E i \in 1..Len(obj.kv) : obj.kv[i][1] = key

\* d[key]: of two members with the same key the later one stands
GetKey(obj, key) ==
  LET i == CHOOSE n \in 1..Len(obj.kv) :
             /\ obj.kv[n][1] = key
             /\ \A m \in (n + 1)..Len(obj.kv) : obj.kv[m][1] # key
  IN obj.kv[i][2]

KeyAnswer == <<"a", "n", "s", "w", "e", "r">>

KeySources == <<"s", "o", "u", "r", "c", "e", "s">>

----------------------------------------------------------------------------
(* The chat submission handler, lines 182-210 *)

Turn(role, content) == [role |-> role, content |-> content]

\* the greeting of lines 170-172
Greeting == JStr(<<"H", "e", "l", "l", "o", "!">>)

InitialHistory == <<Turn("assistant", Greeting)>>

\* what qa_system.invoke does: it raises, or returns a result whose text is raw
EngineRaises == [raised |-> TRUE, raw |-> <<>>]

EngineReturns(raw) == [raised |-> FALSE, raw |-> raw]

Outcome(history, srcs, occurred, errors, sent) ==
  [chat_history |-> history, sources |-> srcs, chat_occurred |-> occurred,
   errors |-> errors, sent |-> sent]

SourcesKeptWhole(value) == IF value.t = "null" THEN <<>> ELSE <<value.s>>

\* line 195: sources.split(". ") if pd.notna(sources) else []   (a string or null)
SourcesToExcerpts(value) ==
  IF value.t = "null" THEN <<>> ELSE Split(value.s, Separator)

\* line 197
AppendAnswer(history, answer) == Append(history, Turn("assistant", answer))

FailureClearsSources(history, srcs, occurred, kind, sent) ==
  Outcome(history, <<>>, occurred, {kind}, sent)

\* the two except clauses, lines 207-210: only an error message
Failure(history, srcs, occurred, kind, sent) ==
  Outcome(history, srcs, occurred, {kind}, sent)

\* lines 192-205, on the parsed object's two fields
AnswerWith(answer, value, history, srcs, occurred) ==
  IF value.t \notin {"str", "null"}
  THEN Failure(history, srcs, occurred, "other", TRUE)   \* no split on it
  ELSE Outcome(AppendAnswer(history, answer), SourcesToExcerpts(value),
               TRUE, {}, TRUE)

\* lines 190-193, on the result of json.loads
AnswerFrom(parsed, history, srcs, occurred) ==
  IF ~parsed.ok
  THEN Failure(history, srcs, occurred, "parse", TRUE)   \* json.JSONDecodeError
  ELSE IF parsed.val.t # "obj"
  THEN Failure(history, srcs, occurred, "other", TRUE)   \* TypeError
  ELSE IF ~HasKey(parsed.val, KeyAnswer) \/ ~HasKey(parsed.val, KeySources)
  THEN Failure(history, srcs, occurred, "other", TRUE)   \* KeyError
  ELSE AnswerWith(GetKey(parsed.val, KeyAnswer), GetKey(parsed.val, KeySources),
                  history, srcs, occurred)

\* the try block, lines 188-205; history already holds the user's turn
AnswerQuestion(qa_system, engine, history, srcs, occurred) ==
  IF qa_system = "none"
  THEN Failure(history, srcs, occurred, "other", FALSE)  \* None has no invoke
  ELSE IF engine.raised
  THEN Failure(history, srcs, occurred, "other", TRUE)
  ELSE AnswerFrom(json_loads(engine.raw), history, srcs, occurred)

----------------------------------------------------------------------------
(* The highlighted preview, lines 213-244 *)

BlankUi ==
  [errors |-> {}, sent |-> FALSE, chat_shown |-> FALSE, prev_shown |-> FALSE,
   rendered |-> FALSE, page_value |-> 0, page_max |-> 0, page_state |-> 0,
   annotations |-> <<>>, pages_to_render |-> 0]

\* lines 223-224
Previous(clicked, page) == IF clicked /\ page > 0 THEN page - 1 ELSE page

NextUnguarded(clicked, page, total) == IF clicked THEN page + 1 ELSE page

\* lines 231-232
NextPage(clicked, page, total) ==
  IF clicked /\ page < total - 1 THEN page + 1 ELSE page

\* st.number_input of lines 226-229, which has no key: it is the widget already
\* on the screen when its value and bounds are those it was created with, and
\* then returns that widget's state (what the user entered, if anything);
\* otherwise it is a new widget and returns its initial value.
NumberInput(value, total, entered, screen) ==
  IF screen.page_value = value /\ screen.page_max = total
  THEN (IF entered # 0 THEN entered ELSE screen.page_state)
  ELSE value

PreviewAlwaysShown(document, occurred) == Truthy(document)

\* line 213
PreviewShown(document, occurred) == Truthy(document) /\ occurred

\* line 235
PreviewAnnotations(document, srcs) ==
  generate_highlight_annotations(document, srcs)

\* lines 231-244, page being the session's page after the number input
PreviewRendered(document, srcs, total, value, returned, page, screen) ==
  [current_page |-> page, total_pages |-> total,
   ui |-> [BlankUi EXCEPT !.prev_shown = TRUE, !.rendered = TRUE,
                          !.page_value = value, !.page_max = total,
                          !.page_state = returned,
                          !.annotations = PreviewAnnotations(document, srcs),
                          !.pages_to_render = page + 1]]

\* lines 226-244, page being the session's page after the Previous button
PreviewFrom(document, srcs, total, page, entered, next, screen) ==
  IF page + 1 < 1 \/ page + 1 > total
  THEN \* number_input raises: the value is outside [min_value, max_value]
       [current_page |-> page, total_pages |-> total,
        ui |-> [BlankUi EXCEPT !.errors = {"page_range"}, !.prev_shown = TRUE]]
  ELSE PreviewRendered(document, srcs, total, page + 1,
         NumberInput(page + 1, total, entered, screen),
         NextPage(next, NumberInput(page + 1, total, entered, screen) - 1, total),
         screen)

\* the result: the session's page and page count, and the part of the screen
Preview(document, occurred, page, srcs, total_before, prev, entered, next, screen) ==
  IF ~PreviewShown(document, occurred)
  THEN [current_page |-> page, total_pages |-> total_before, ui |-> BlankUi]
  ELSE PreviewFrom(document, srcs, PageCount(document), Previous(prev, page),
                   entered, next, screen)

----------------------------------------------------------------------------
(* One run of the script, lines 24-247 *)

NoFile == [name |-> "", pages |-> <<>>]

NoEngine == [raised |-> FALSE, raw |-> <<>>]

Event(kind, text, page, engine) ==
  [kind |-> kind, text |-> text, page |-> page, engine |-> engine]

\* setup_qa_system is cached without regard to its argument (_documents is
\* not hashed): its body runs once, and every later call returns that result
QaSystem(setup) == IF qa_cache = "unset" THEN setup ELSE qa_cache

\* lines 169-172
HistoryInitialized(history) ==
  IF history = <<>> THEN InitialHistory ELSE history

\* lines 213-244 and what the run leaves in the session and on the screen
ScriptEnd(file, qa_system, out, pv) ==
  /\ doc' = Document(file.pages)
  /\ qa_cache' = qa_system
  /\ chat_history' = out.chat_history
  /\ sources' = out.sources
  /\ chat_occurred' = out.chat_occurred
  /\ current_page' = pv.current_page
  /\ total_pages' = pv.total_pages
  /\ ui' = [pv.ui EXCEPT
              !.errors = (IF qa_system = "none" THEN {"setup"} ELSE {})
                         \cup out.errors \cup pv.ui.errors,
              !.sent = out.sent,
              !.chat_shown = TRUE]

\* lines 182-244, out being the outcome of the chat submission handler
ScriptPreview(file, ev, qa_system, out) ==
  \E pv \in {Preview(Document(file.pages), out.chat_occurred, current_page,
                     out.sources, total_pages, ev.kind = "prev",
                     IF ev.kind = "enter" THEN ev.page ELSE 0,
                     ev.kind = "next", ui)} :
     ScriptEnd(file, qa_system, out, pv)

\* lines 169-244, history being the initialized chat history
ScriptChat(file, ev, qa_system, history) ==
  \E out \in {IF ev.kind = "submit"
              THEN AnswerQuestion(qa_system, ev.engine,
                                  Append(history, Turn("user", JStr(ev.text))),
                                  sources, chat_occurred)
              ELSE Outcome(history, sources, chat_occurred, {}, FALSE)} :
     ScriptPreview(file, ev, qa_system, out)

Script(file, setup, ev) ==
  /\ uploaded_file' = file
  /\ event' = ev
  /\ UNCHANGED call
  /\ IF file = NoFile
     THEN \* line 247
          /\ ui' = BlankUi
          /\ UNCHANGED <<qa_cache, current_page, sources, doc, chat_history,
                         chat_occurred, total_pages>>
     ELSE IF Len(file.pages) = 0
     THEN \* line 161: no documents
          /\ doc' = Document(file.pages)
          /\ ui' = BlankUi
          /\ UNCHANGED <<qa_cache, current_page, sources, chat_history,
                         chat_occurred, total_pages>>
     ELSE ScriptChat(file, ev, QaSystem(setup), HistoryInitialized(chat_history))

----------------------------------------------------------------------------
(* The inputs *)

DumpString(s) == <<Quote>> \o s \o <<Quote>>

DumpMember(key, text) == DumpString(key) \o <<":">> \o text

NullText == <<"n", "u", "l", "l">>

DumpAnswer(answer, sourcesText) ==
  <<"{">> \o DumpMember(KeyAnswer, DumpString(answer)) \o <<",">>
          \o DumpMember(KeySources, sourcesText) \o <<"}">>

DumpAnswerOnly(answer) ==
  <<"{">> \o DumpMember(KeyAnswer, DumpString(answer)) \o <<"}">>

Answers == {<<"A">>, <<"n", "o">>}

Questions == {<<"q">>}

\* values of the sources field
SourceTexts ==
  { <<"a", ".", " ", "b">>,
    <<"a", "b">>,
    <<>>,
    <<"a", ".", " ">>,
    <<"b", ".", " ", "b">>,
    <<"c">>,
    <<"a", ".", "b">>,
    <<"f", "o", "o", ".", " ", "b", "a", "r">> }

\* {"answer":"A","sources":"foo. bar"} written out
ExampleRaw ==
  <<"{", "\"", "a", "n", "s", "w", "e", "r", "\"", ":", "\"", "A", "\"", ",",
    "\"", "s", "o", "u", "r", "c", "e", "s", "\"", ":", "\"", "f", "o", "o",
    ".", " ", "b", "a", "r", "\"", "}">>

\* { "answer" : "A" , "sources" : "a. b" }
SpacedRaw ==
  <<"{", " ">> \o DumpString(KeyAnswer) \o <<" ", ":", " ">> \o DumpString(<<"A">>)
     \o <<" ", ",", " ">> \o DumpString(KeySources) \o <<" ", ":", " ">>
     \o DumpString(<<"a", ".", " ", "b">>) \o <<" ", "}">>

\* answers with both fields strings: the raw output, with the answer and the
\* sources text it is written from
StringAnswerCases ==
  {<<DumpAnswer(<<"A">>, DumpString(s)), <<"A">>, s>> : s \in SourceTexts}
    \cup {<<DumpAnswer(<<"n", "o">>, DumpString(s)), <<"n", "o">>, s>> :
            s \in {<<>>, <<"a", ".", " ", "b">>}}
    \cup {<<SpacedRaw, <<"A">>, <<"a", ".", " ", "b">> >>}

StringAnswers == {c[1] : c \in StringAnswerCases} \cup {ExampleRaw}

NullSourcesAnswers == {DumpAnswer(a, NullText) : a \in Answers}

MissingSourcesAnswers == {DumpAnswerOnly(a) : a \in Answers}

\* valid JSON that the handler cannot use
UnusableAnswers ==
  { DumpString(<<"A">>),                       \* "A"
    NullText,                                  \* null
    <<"{", "}">>,                              \* {}
    DumpAnswer(<<"A">>, <<"1">>),              \* sources a number
    <<"{">> \o DumpMember(KeySources, DumpString(<<"a">>)) \o <<"}">> }

\* not JSON
MalformedAnswers ==
  { <<>>,
    <<"A">>,                                                  \* plain text
    SubSeq(ExampleRaw, 1, Len(ExampleRaw) - 1),               \* no closing brace
    SubSeq(ExampleRaw, 1, Len(ExampleRaw) - 2),               \* string not closed
    ExampleRaw \o <<"}">>,                                    \* extra data
    <<"{">> \o DumpMember(KeyAnswer, DumpString(<<"A">>)) \o <<",", "}">>,
    <<"{">> \o DumpString(KeyAnswer) \o DumpString(<<"A">>) \o <<"}">> }

RawOutputs ==
  StringAnswers \cup NullSourcesAnswers \cup MissingSourcesAnswers
    \cup UnusableAnswers \cup MalformedAnswers

EngineOutcomes == {EngineRaises} \cup {EngineReturns(raw) : raw \in RawOutputs}

File1 ==
  [name |-> "f1",
   pages |-> << <<"a", "b", " ", "a">>, <<"b">>, <<"a", ".", "b">> >>]

File2 == [name |-> "f2", pages |-> << <<"b", "a", "r">> >>]

File3 ==
  [name |-> "f3", pages |-> << <<"c", "c">>, <<"f", "o", "o", " ", "b">> >>]

Files == {File1, File2, File3}

----------------------------------------------------------------------------
(* The interactions: each one re-runs the script *)

IdleCall == [pc |-> "idle", document |-> NoneDoc, excerpts |-> <<>>, result |-> <<>>]

\* the session after the first run of the script, before any upload
Init ==
  /\ uploaded_file = NoFile
  /\ qa_cache = "unset"
  /\ current_page = 0
  /\ sources = <<>>
  /\ doc = NoneDoc
  /\ chat_history = <<>>
  /\ chat_occurred = FALSE
  /\ total_pages = 0
  /\ ui = BlankUi
  /\ event = Event("init", <<>>, 0, NoEngine)
  /\ call = IdleCall

\* the user puts a file in the uploader
Upload ==
  \E f \in Files, setup \in {"ok", "none"} :
     /\ f # uploaded_file
     /\ qa_cache # "unset" => setup = qa_cache
     /\ Script(f, setup, Event("upload", <<>>, 0, NoEngine))

\* the user takes the file out of the uploader
Remove ==
  /\ uploaded_file # NoFile
  /\ Script(NoFile, qa_cache, Event("remove", <<>>, 0, NoEngine))

\* the user sends a question in the chat input
Submit ==
  \E q \in Questions, engine \in EngineOutcomes :
     /\ ui.chat_shown
     /\ Len(chat_history) + 2 <= MaxTurns
     /\ Script(uploaded_file, qa_cache, Event("submit", q, 0, engine))

ClickPrevious ==
  /\ ui.prev_shown
  /\ Script(uploaded_file, qa_cache, Event("prev", <<>>, 0, NoEngine))

ClickNext ==
  /\ ui.rendered
  /\ Script(uploaded_file, qa_cache, Event("next", <<>>, 0, NoEngine))

\* the user changes the number in the page input
EnterPage ==
  \E v \in 1..ui.page_max :
     /\ ui.rendered
     /\ v # ui.page_state
     /\ Script(uploaded_file, qa_cache, Event("enter", <<>>, v, NoEngine))

Next == Upload \/ Remove \/ Submit \/ ClickPrevious \/ ClickNext \/ EnterPage

Spec == Init /\ [][Next]_vars

\* one session on one document: a file is uploaded once and stays
UploadFirst == uploaded_file = NoFile /\ Upload

NextDoc == UploadFirst \/ Submit \/ ClickPrevious \/ ClickNext \/ EnterPage

SpecDoc == Init /\ [][NextDoc]_vars

----------------------------------------------------------------------------
(* Direct calls of the two pure functions of lines 66-72 and 111-126 *)

Excerpts ==
  { <<>>, <<"a">>, <<"b">>, <<"a", "b">>, <<"c">>, <<"a", ".", "b">> }

ExcerptLists == UNION {[1..n -> Excerpts] : n \in 0..MaxExcerpts}

FnDocuments ==
  {NoneDoc, Document(<<>>)} \cup {Document(f.pages) : f \in Files}

InitFn ==
  /\ uploaded_file = NoFile
  /\ qa_cache = "unset"
  /\ current_page = 0
  /\ sources = <<>>
  /\ doc = NoneDoc
  /\ chat_history = <<>>
  /\ chat_occurred = FALSE
  /\ total_pages = 0
  /\ ui = BlankUi
  /\ event = Event("init", <<>>, 0, NoEngine)
  /\ \E d \in FnDocuments, e \in ExcerptLists :
        call = [pc |-> "ready", document |-> d, excerpts |-> e, result |-> <<>>]

\* locate_pages_containing_excerpts(document, excerpts), document an open one
CallLocate ==
  /\ call.pc = "ready"
  /\ ~call.document.isNone
  /\ call' = [call EXCEPT
                !.pc = "located",
                !.result = locate_pages_containing_excerpts(call.document,
                                                            call.excerpts)]
  /\ UNCHANGED session

\* generate_highlight_annotations(document, excerpts), document possibly None
CallGenerate ==
  /\ call.pc = "ready"
  /\ call' = [call EXCEPT
                !.pc = "annotated",
                !.result = generate_highlight_annotations(call.document,
                                                          call.excerpts)]
  /\ UNCHANGED session

NextFn == CallLocate \/ CallGenerate

SpecFn == InitFn /\ [][NextFn]_vars

----------------------------------------------------------------------------
(* Claims *)

\* the pages on which some non-empty excerpt has at least one search match
MatchingPages(document, excerpts) ==
  {p \in 0..(PageCount(document) - 1) :
     \E i \in 1..Len(excerpts) :
        /\ excerpts[i] # <<>>
        /\ search_for(document.pages[p + 1], excerpts[i]) # <<>>}

StrictlyAscending(s) == \A i, j \in 1..Len(s) : i < j => s[i] < s[j]

\* C1: when some page has a match, locate_pages_containing_excerpts returns
\* exactly the pages with a match of a non-empty excerpt, strictly ascending.
C1_LocateReturnsMatchingPages ==
  (call.pc = "located" /\ MatchingPages(call.document, call.excerpts) # {})
    => /\ Range(call.result) = MatchingPages(call.document, call.excerpts)
       /\ StrictlyAscending(call.result)

C1_Witness ==
  /\ call.pc = "located"
  /\ Len(call.excerpts) = 2
  /\ MatchingPages(call.document, call.excerpts) = {0, 2}

\* C2: when no page has a match (no excerpts, only empty ones, or only
\* excerpts found nowhere), locate_pages_containing_excerpts returns <<0>>,
\* and in no case does it return the empty sequence.
C2_LocateFallsBackToPageZero ==
  call.pc = "located"
    => /\ Len(call.result) > 0
       /\ MatchingPages(call.document, call.excerpts) = {} => call.result = <<0>>

C2_Witness ==
  /\ call.pc = "located"
  /\ PageCount(call.document) > 1
  /\ \E i \in 1..Len(call.excerpts) : call.excerpts[i] # <<>>
  /\ MatchingPages(call.document, call.excerpts) = {}
  /\ call.result = <<0>>

\* the (page, excerpt position, match position) triples of a call
MatchTriples(document, excerpts) ==
  UNION { {<<p, i, j>> : j \in 1..Len(search_for(document.pages[p + 1], excerpts[i]))} :
          p \in 0..(PageCount(document) - 1),
          i \in {n \in 1..Len(excerpts) : excerpts[n] # <<>>} }

TripleBefore(u, t) ==
  \/ u[1] < t[1]
  \/ u[1] = t[1] /\ u[2] < t[2]
  \/ u[1] = t[1] /\ u[2] = t[2] /\ u[3] < t[3]

\* the position of triple t by page, then excerpt position, then match order
TripleRank(t, triples) == 1 + Cardinality({u \in triples : TripleBefore(u, t)})

TripleBox(document, excerpts, t) ==
  search_for(document.pages[t[1] + 1], excerpts[t[2]])[t[3]]

\* C3: generate_highlight_annotations returns one annotation per (page,
\* non-empty excerpt, match) triple, ordered by page, excerpt position and
\* match order, with page = p + 1, x = x0, y = y0, width = x1 - x0 and
\* height = y1 - y0, nothing deduplicated; and the empty sequence for an
\* absent document and when every excerpt is empty.
C3_OneAnnotationPerMatch ==
  call.pc = "annotated" =>
    LET triples == MatchTriples(call.document, call.excerpts) IN
    /\ Len(call.result) = Cardinality(triples)
    /\ \A t \in triples :
          LET a   == call.result[TripleRank(t, triples)]
              box == TripleBox(call.document, call.excerpts, t)
          IN /\ a.page = t[1] + 1
             /\ a.x = box.x0
             /\ a.y = box.y0
             /\ a.width = box.x1 - box.x0
             /\ a.height = box.y1 - box.y0
    /\ call.document.isNone => call.result = <<>>
    /\ (\A i \in 1..Len(call.excerpts) : call.excerpts[i] = <<>>)
          => call.result = <<>>

C3_Witness ==
  /\ call.pc = "annotated"
  /\ Len(call.result) >= 3
  /\ \E k, l \in 1..Len(call.result) :
        /\ k < l
        /\ call.result[k] = call.result[l]
        /\ call.result[k].page = 3
        /\ call.result[k].x > 0

UserTurn(ev) == Turn("user", JStr(ev.text))

\* the run answered a question with an engine that was set up and returned raw
Answered(raws) ==
  /\ event'.kind = "submit"
  /\ qa_cache' = "ok"
  /\ ~event'.engine.raised
  /\ event'.engine.raw \in raws

\* C4: when the raw output is not JSON, a parse error is reported, the chat
\* stays available, the only turn added is the user's question and the
\* excerpt list is unchanged.
C4_MalformedJsonKeepsSession ==
  [][Answered(MalformedAnswers) =>
       /\ "parse" \in ui'.errors
       /\ ui'.chat_shown
       /\ chat_history' = Append(chat_history, UserTurn(event'))
       /\ sources' = sources]_vars

C4_Witness ==
  /\ event.kind = "submit"
  /\ event.engine.raw \in MalformedAnswers
  /\ "parse" \in ui.errors
  /\ Len(chat_history) = 4
  /\ sources # <<>>

RECURSIVE Join(_, _)
Join(parts, sep) ==
  IF Len(parts) = 0 THEN <<>>
  ELSE IF Len(parts) = 1 THEN parts[1]
  ELSE parts[1] \o sep \o Join(Tail(parts), sep)

ContainsSeparator(s) ==
  \E i \in 1..Len(s) : i < Len(s) /\ s[i] = "." /\ s[i + 1] = " "

\* parts is text cut at every ". "
IsSplitOf(parts, text) ==
  /\ Len(parts) >= 1
  /\ Join(parts, <<".", " ">>) = text
  /\ \A i \in 1..Len(parts) : ~ContainsSeparator(parts[i])

AnsweredWith(raw, answer, text) ==
  event'.engine.raw = raw =>
    /\ chat_history' = chat_history \o <<UserTurn(event'), Turn("assistant", JStr(answer))>>
    /\ IsSplitOf(sources', text)

\* C5: when the raw output is a JSON object with string fields answer and
\* sources, the history grows by the user's turn and one assistant turn with
\* the answer verbatim, and the excerpt list becomes the sources string cut
\* at every ". "; {"answer":"A","sources":"foo. bar"} gives "A" and
\* <<"foo", "bar">>.
C5_StringAnswerIsAppendedAndSplit ==
  [][Answered(StringAnswers) =>
       /\ \E c \in StringAnswerCases : event'.engine.raw = c[1]
       /\ \A c \in StringAnswerCases : AnsweredWith(c[1], c[2], c[3])
       /\ event'.engine.raw = ExampleRaw =>
            /\ chat_history'[Len(chat_history')] = Turn("assistant", JStr(<<"A">>))
            /\ sources' = << <<"f", "o", "o">>, <<"b", "a", "r">> >>]_vars

C5_Witness ==
  /\ event.kind = "submit"
  /\ event.engine.raw = ExampleRaw
  /\ Len(chat_history) = 3
  /\ chat_history[3] = Turn("assistant", JStr(<<"A">>))
  /\ sources = << <<"f", "o", "o">>, <<"b", "a", "r">> >>

\* C6: when the output is JSON whose sources field is missing or null, the
\* answer is appended as an assistant turn and the excerpt list becomes empty.
C6_AbsentOrNullSourcesGiveNoExcerpts ==
  [][Answered(NullSourcesAnswers \cup MissingSourcesAnswers) =>
       /\ \E a \in Answers :
             chat_history' = chat_history \o <<UserTurn(event'), Turn("assistant", JStr(a))>>
       /\ sources' = <<>>]_vars

\* C7: when setup_qa_system returned None, the failure is reported and the
\* run accepts no question, sends nothing to the engine and changes neither
\* the chat history nor the excerpt list.
C7_NoQuestionWithoutQaSystem ==
  [][(uploaded_file' # NoFile /\ qa_cache' = "none") =>
       /\ "setup" \in ui'.errors
       /\ event'.kind # "submit"
       /\ ~ui'.sent
       /\ HistoryInitialized(chat_history') = HistoryInitialized(chat_history)
       /\ sources' = sources]_vars

C8_PageInRange ==
  uploaded_file # NoFile =>
    /\ current_page \in 0..(PageCount(doc) - 1)
    /\ ui.rendered => /\ ui.pages_to_render = current_page + 1
                      /\ ui.pages_to_render \in 1..PageCount(doc)

C8_Step ==
  /\ (event'.kind = "prev" /\ current_page = 0) => current_page' = 0
  /\ (event'.kind = "next" /\ current_page = PageCount(doc) - 1)
        => current_page' = current_page
  /\ event'.kind = "enter" =>
        /\ event'.page \in 1..PageCount(doc)
        /\ current_page' \in {event'.page - 1, current_page}

\* C8: on one loaded document the current page stays in [0, totalPages-1]
\* under Previous, Next and page entry: Previous at page 0 and Next at the
\* last page leave it unchanged, an entered page is in [1, totalPages], and
\* the viewer gets current page + 1, in [1, totalPages].
C8_NavigationStaysInRange == []C8_PageInRange /\ [][C8_Step]_vars

C8_Witness ==
  /\ event.kind = "next"
  /\ PageCount(doc) = 3
  /\ ui.page_value = 3
  /\ current_page = 2
  /\ ui.pages_to_render = 3

\* C9: an upload puts the current page, the excerpt list and the chat
\* history back at their initial values.
C9_UploadResetsSession ==
  [][event'.kind = "upload" =>
       /\ current_page' = 0
       /\ sources' = <<>>
       /\ chat_history' = InitialHistory]_vars

\* some question of the session was answered successfully
HasAnswer(history) == \E i \in 2..Len(history) : history[i].role = "assistant"

C10_Step ==
  ui'.rendered =>
    IF Len(chat_history') = Len(chat_history) + 2
    THEN \A answered \in {json_loads(event'.engine.raw).val}, document \in {doc'} :
           \A excerpts \in {SourcesToExcerpts(GetKey(answered, KeySources))} :
              ui'.annotations = generate_highlight_annotations(document, excerpts)
    ELSE ui.rendered /\ ui'.annotations = ui.annotations

\* C10: on one loaded document the preview is rendered in exactly the runs
\* at or after the first successful answer, failed answers included, and its
\* annotations are those of the excerpt list of the latest successful answer.
C10_PreviewFollowsLatestAnswer ==
  /\ [](uploaded_file # NoFile => (ui.rendered <=> HasAnswer(chat_history)))
  /\ [][C10_Step]_vars

C10_Witness ==
  /\ ui.rendered
  /\ event.kind = "submit"
  /\ "parse" \in ui.errors
  /\ ui.annotations # <<>>

====
